---------------------------- MODULE Spec2Model ----------------------------
(***************************************************************************)
(* A model of vent/controller/control_module.py: the parameter exchange    *)
(* between the coordinator and the control loop, the loop thread's         *)
(* lifecycle (start / stop / interrupt), the breath segmenter with its     *)
(* waveform ring buffer, the alarm checks and the valve command mapper.    *)
(*                                                                         *)
(* Two kinds of thread act: the coordinator (the caller of the public      *)
(* methods) and the loop threads spawned by start() and interrupt().       *)
(* A loop thread's iteration is split where another thread can observe or  *)
(* disturb it: at the test of the running flag, at every acquisition and   *)
(* release of self._lock, and at the hardware write.                       *)
(*                                                                         *)
(* Conventions.  Times are in ticks of 100 ms.  Pressures, flows, phases   *)
(* and control values are integers (phases are in hundredths of a second). *)
(* Python's None is the integer None (-1) for scalar fields and the empty  *)
(* tuple for tuple-valued fields; no field that can be None is ever        *)
(* negative.  The controller's inlet command is in tenths.                 *)
(* The sensor, controller and clock readings of one iteration are one      *)
(* input record r = [ph, p, q, o2, dt, u_in, u_out]; each specification    *)
(* draws them from its own small set.                                      *)
(***************************************************************************)
EXTENDS Integers, Sequences, FiniteSets, TLC

(***************************************************************************)
(* Bounds of the model.                                                    *)
(***************************************************************************)
MaxLoops == 4           \* Spec: _loop_counter is incremented only below this
CtlMaxLoops == 3        \* CtlSpec: the same
SegMaxLoops == 10       \* SegSpec: the same
MaxSamples == 3         \* longest in-progress waveform; then the phase wraps
MaxTime == 3            \* the clock ticks only below OXYGEN_PERIOD + 1 + MaxTime

(***************************************************************************)
(* Program constants.  The preferences and tables they are read from       *)
(* (prefs, ALARM_RULES, CONTROL) are outside the sources; the values are   *)
(* small stand-ins, in the model's units.                                  *)
(***************************************************************************)
None == -1
Unlocked == 0                        \* self._lock is free
Coordinator == -2                    \* the coordinator as holder of the lock
RINGBUFFER_SIZE == 2                 \* prefs CONTROLLER_RINGBUFFER_SIZE
LOOPS_UNTIL_UPDATE == 1              \* prefs CONTROLLER_LOOPS_UNTIL_UPDATE
LOOP_UPDATE_TIME == 1                \* prefs CONTROLLER_LOOP_UPDATE_TIME
DT_LIMIT == 5                        \* CONTROL[BREATHS_PER_MINUTE].default / 4
COUGH_DURATION == 1                  \* prefs COUGH_DURATION
HEARTBEAT_TIMEOUT == 2               \* prefs HEARTBEAT_TIMEOUT
LIMIT_HAPA_DEFAULT == 4              \* ALARM_RULES[HIGH_PRESSURE] limit
HAPA_PIP == 30                       \* __SET_PIP forced by a HAPA release
FORCED_RELEASE_CYCLES == 5           \* range(5)
FORCED_RELEASE_TICKS == 1            \* 5 cycles of time.sleep(0.02)
FLUSH_EVERY == 1                     \* flush_every of get_control_module
LIMIT_MAX_FLOWS == 10
LIMIT_MAX_PRESSURE == 100
LIMIT_MAX_STUCK_SENSOR == 2          \* 0.2 s
OXYGEN_PERIOD == 50                  \* oxygen is read at most every 5 s
CONTROL_DEFAULT == 1                 \* CONTROL[name].default, every name
VALVE_MAX == 100

ControlNames ==
    {"PIP", "PIP_TIME", "PEEP", "PEEP_TIME", "BREATHS_PER_MINUTE",
     "INSPIRATION_TIME_SEC"}

VARIABLES
    COPY_SET,            \* the shared copy COPY_SET_*, by setting name
    SET,                 \* the working copy __SET_*, by setting name
    limit_hapa,          \* self.limit_hapa
    HAPA,                \* None, or the start_time of the open HAPA alarm
    TECHA,               \* the list of technical alarms (their types)
    release_cycles,      \* forced-release cycles of the last alarm check
    COPY_sensor_values,  \* the published sensor snapshot
    running,             \* self._running.is_set()
    lock,                \* holder of the current self._lock, or Unlocked
    thr,                 \* the loop threads ever spawned, in order
    cur,                 \* index in thr of self.__thread, 0 for None
    loop_counter,        \* self._loop_counter
    control_signal_in,   \* self.__control_signal_in
    control_signal_out,  \* self.__control_signal_out
    data,                \* _DATA_PRESSURE, _DATA_VOLUME, _DATA_Qout, oxygen fields
    DATA_old,            \* __DATA_old: the previous (oxygen, flow, pressure)
    sensor_stuck_since,  \* self.sensor_stuck_since
    DATA_BREATH_COUNT,   \* self._DATA_BREATH_COUNT
    breath_counter,      \* next value of self._breath_counter
    cycle_waveform,      \* __cycle_waveform: samples <<phase, pressure, volume>>
    archive,             \* __cycle_waveform_archive, oldest first
    hal,                 \* HAL setpoints and the cached current_setting_*
    time_last_contact,   \* self._time_last_contact
    now,                 \* time.time()
    dl_closed,           \* stop() has closed the log file
    co,                  \* the coordinator's position inside a public method
    calls,               \* the last two public methods the coordinator called
    ret,                 \* what the last public method returned
    unlocked,            \* shared fields the last step touched without the lock
    obs,                 \* observed <<phase, new breath?>> of the iterations
    last_set,            \* by name, the last value set_control stored
    breath_ids,          \* the breath counts given out, in order
    archived,            \* how many waveforms the loop has archived
    held_io,             \* the logger calls made so far with the lock held
    late_store           \* the loop has called the logger after close_logfile

vars ==
    <<COPY_SET, SET, limit_hapa, HAPA, TECHA, release_cycles,
      COPY_sensor_values, running,
      lock, thr, cur, loop_counter, control_signal_in, control_signal_out,
      data, DATA_old, sensor_stuck_since, DATA_BREATH_COUNT, breath_counter,
      cycle_waveform, archive, hal, time_last_contact, now, dl_closed, co,
      calls, ret, unlocked, obs, last_set, breath_ids,
                   archived, held_io, late_store>>

\* groups of variables, for UNCHANGED
ctlVars == <<COPY_SET, SET, limit_hapa>>
alarmVars == <<HAPA, TECHA, DATA_old, sensor_stuck_since, release_cycles>>
lifeVars == <<running, lock, thr, cur>>
segVars == <<DATA_BREATH_COUNT, breath_counter, cycle_waveform, archive>>
sigVars == <<control_signal_in, control_signal_out>>

Last(s) == s[Len(s)]
Min(a, b) == IF a < b THEN a ELSE b
Max(a, b) == IF a > b THEN a ELSE b


(***************************************************************************)
(* Loop threads.  A thread record holds the thread's place in              *)
(* _start_mainloop and that method's locals.  stale: the thread is inside  *)
(* a `with self._lock` block whose lock object interrupt() has released    *)
(* and replaced.  since: the iterations the thread has begun since its     *)
(* last resync, or since its start.                                        *)
(***************************************************************************)
NewThread ==
    [pc |-> "top", update_copies |-> LOOPS_UNTIL_UPDATE, cycle_phase |-> None,
     stale |-> FALSE, since |-> 0]

DeadThread(how) ==
    [pc |-> how, update_copies |-> 0, cycle_phase |-> None, stale |-> FALSE,
     since |-> 0]

is_alive(t) == t \in 1..Len(thr) /\ thr[t].pc \notin {"exited", "crashed"}

\* the pcs at which a thread is inside a `with self._lock` block
InCritical == {"nb_rel", "ctl_rel", "sen_rel", "fin_ctl_rel", "fin_sen_rel"}

\* where a thread goes on leaving the block
AfterRelease(pc) ==
    CASE pc = "nb_rel" -> "write"
      [] pc = "ctl_rel" -> "sen_acq"
      [] pc = "sen_rel" -> "top"
      [] pc = "fin_ctl_rel" -> "fin_sen_acq"
      [] pc = "fin_sen_rel" -> "exited"

(***************************************************************************)
(* _get_HAL: the pressure reading, and during expiration the flow and      *)
(* (every OXYGEN_PERIOD) the oxygen reading.  r.q stands for the baseline- *)
(* corrected flow pq - Qbaseline; the 500-sample flow list behind the      *)
(* baseline is not modelled.  i_phase is COPY_SET_I_PHASE, read without    *)
(* the lock.                                                               *)
(***************************************************************************)
get_HAL(d, r, i_phase, t) ==
    LET inspiration_phase == r.ph < i_phase
        read_oxygen == ~inspiration_phase /\ t - d.OXYGEN_LAST_READ > OXYGEN_PERIOD
    IN  [d EXCEPT
            !.PRESSURE = r.p,
            !.Qout = IF inspiration_phase THEN 0 ELSE r.q,
            !.COPY_OXYGEN = IF inspiration_phase THEN d.OXYGEN ELSE @,
            !.OXYGEN = IF read_oxygen THEN r.o2 ELSE @,
            !.OXYGEN_LAST_READ = IF read_oxygen THEN t ELSE @]

\* dt > CONTROL[BREATHS_PER_MINUTE].default / 4 is replaced by the loop period
ClampDt(dt) == IF dt > DT_LIMIT THEN LOOP_UPDATE_TIME ELSE dt

(***************************************************************************)
(* __test_for_alarms, on the measurements d and the controller's command   *)
(* (cin, cout): the new alarm state, the command after a forced release,   *)
(* and the clock after the release's pauses.                               *)
(***************************************************************************)
\* a faulty variant of HapaAfter: the alarm made anew in every check
HapaAfter_Restamped(over, hapa, t) == IF over THEN t ELSE None

\* lines 422-429 and 444-445: the HAPA slot (the alarm's start_time) after
\* the comparison of the pressure with the limit
HapaAfter(over, hapa, t) ==
    IF over THEN (IF hapa = None THEN t ELSE hapa) ELSE None

\* faulty variants of ForcedRelease: no tolerance for coughs; no release
ForcedRelease_NoTolerance(over, start_time, t) == over

ForcedRelease_Never(over, start_time, t) == FALSE

\* lines 430-432: the release is forced once the alarm is older than
\* cough_duration
ForcedRelease(over, start_time, t) == over /\ t - start_time > COUGH_DURATION

\* a faulty variant of ContactAge: the time since the last contact
ContactAge_Elapsed(contact, t) == t - contact

\* line 485: last_contact = self._time_last_contact - time.time()
ContactAge(contact, t) == contact - t

\* a faulty variant of InputsDontChange: all three readings unchanged
InputsDontChange_All(triple, old) == old # <<>> /\ triple = old

\* lines 449-457: some reading of (oxygen, flow-out, pressure) is what it was
\* in the check before; False in the first check, when __DATA_old is None
InputsDontChange(triple, old) ==
    /\ old # <<>>
    /\ \/ triple[1] = old[1]
       \/ triple[2] = old[2]
       \/ triple[3] = old[3]

\* a faulty variant of AddAlarm: no test for an alarm of the same type
AddAlarm_Again(techa, type) == Append(techa, type)

HasAlarm(techa, type) == \E i \in 1..Len(techa) : techa[i] = type

AddAlarm(techa, type) ==
    IF HasAlarm(techa, type) THEN techa ELSE Append(techa, type)

\* a faulty variant of BadReadingsAfter: the alarm is taken back when the
\* readings are plausible again
BadReadingsAfter_Cleared(techa, implausible) ==
    IF implausible THEN AddAlarm(techa, "BAD_SENSOR_READINGS")
    ELSE SelectSeq(techa, LAMBDA a : a # "BAD_SENSOR_READINGS")

\* lines 478-481: implausible readings add BAD_SENSOR_READINGS (once);
\* plausible ones leave the list as it is
BadReadingsAfter(techa, implausible) ==
    IF implausible THEN AddAlarm(techa, "BAD_SENSOR_READINGS") ELSE techa

test_for_alarms(d, cin, cout) ==
    LET over == d.PRESSURE > limit_hapa
        hapa1 == HapaAfter(over, HAPA, now)
        forced == ForcedRelease(over, hapa1, now)
        t1 == IF forced THEN now + FORCED_RELEASE_TICKS ELSE now
        triple == <<d.COPY_OXYGEN, d.Qout, d.PRESSURE>>
        inputs_dont_change == InputsDontChange(triple, DATA_old)
        time_elapsed ==
            IF sensor_stuck_since = None THEN 0 ELSE t1 - sensor_stuck_since
        techa1 ==
            IF inputs_dont_change /\ time_elapsed > LIMIT_MAX_STUCK_SENSOR
            THEN AddAlarm(TECHA, "SENSORS_STUCK") ELSE TECHA
        data_implausible ==
            \/ d.COPY_OXYGEN < 0 \/ d.COPY_OXYGEN > 100
            \/ d.Qout < 0 \/ d.Qout > LIMIT_MAX_FLOWS
            \/ d.PRESSURE < 0 \/ d.PRESSURE > LIMIT_MAX_PRESSURE
        techa2 == BadReadingsAfter(techa1, data_implausible)
        last_contact == ContactAge(time_last_contact, t1)
        techa3 ==
            IF last_contact > HEARTBEAT_TIMEOUT
            THEN AddAlarm(techa2, "MISSED_HEARTBEAT") ELSE techa2
    IN  [HAPA |-> hapa1,
         forced |-> forced,
         cycles |-> IF forced THEN FORCED_RELEASE_CYCLES ELSE 0,
         cin |-> IF forced THEN 0 ELSE cin,
         cout |-> IF forced THEN 1 ELSE cout,
         now |-> t1,
         DATA_old |-> triple,
         stuck |-> IF inputs_dont_change
                   THEN (IF sensor_stuck_since = None THEN t1
                         ELSE sensor_stuck_since)
                   ELSE None,
         TECHA |-> techa3]

(***************************************************************************)
(* The breath segmenter.                                                   *)
(***************************************************************************)
\* a faulty variant of IsNewBreath: the comparison of line 777 turned round
IsNewBreath_Reversed(cycle_phase, ph) == cycle_phase = None \/ cycle_phase < ph

\* a faulty variant of IsNewBreath: an unchanged phase taken for a new breath
IsNewBreath_OrEqual(cycle_phase, ph) == cycle_phase = None \/ cycle_phase >= ph

\* line 777: a new breath when no previous phase exists or the phase fell
IsNewBreath(cycle_phase, ph) == cycle_phase = None \/ cycle_phase > ph

\* a faulty variant of DequeAppend: a deque without maxlen
DequeAppend_Unbounded(d, w) == Append(d, w)

\* deque(maxlen = RINGBUFFER_SIZE).append: at capacity the oldest is dropped
DequeAppend(d, w) ==
    IF Len(d) >= RINGBUFFER_SIZE THEN Append(Tail(d), w) ELSE Append(d, w)

\* line 506: the closed waveform is archived if it has more than one sample
ArchiveClosed(arch, w) == IF Len(w) > 1 THEN DequeAppend(arch, w) ELSE arch

\* a faulty variant of NextCount: a counter that is created anew each time
NextCount_Restarted(counter) == 0

\* the next value of itertools.count()
NextCount(counter) == counter

(***************************************************************************)
(* __analyze_last_waveform, as far as it decides whether the loop thread   *)
(* survives: the numpy reductions over an empty selection raise.           *)
(* Percentiles are numpy's (linear interpolation), times 100.              *)
(***************************************************************************)
RECURSIVE SumSeq(_)
SumSeq(s) == IF s = <<>> THEN 0 ELSE Head(s) + SumSeq(Tail(s))

InsertSorted(x, s) ==
    LET k == Cardinality({i \in 1..Len(s) : s[i] < x})
    IN  SubSeq(s, 1, k) \o <<x>> \o SubSeq(s, k + 1, Len(s))

RECURSIVE SortAsc(_)
SortAsc(s) ==
    IF s = <<>> THEN <<>> ELSE InsertSorted(Head(s), SortAsc(Tail(s)))

\* s sorted and not empty
Percentile100(s, q) ==
    LET pos == q * (Len(s) - 1)
        k == pos \div 100
        f == pos % 100
    IN  IF f = 0 THEN 100 * s[k + 1]
        ELSE 100 * s[k + 1] + f * (s[k + 2] - s[k + 1])

PressureOf(w) == [i \in 1..Len(w) |-> w[i][2]]

AnalyzerRaises(w) ==
    LET P == PressureOf(w)
        n == Len(P)
        total == SumSeq(P)
        below == SortAsc(SelectSeq(P, LAMBDA p : p * n < total))
        above == SortAsc(SelectSeq(P, LAMBDA p : p * n > total))
    IN  \/ below = <<>>
        \/ above = <<>>
        \/ ~ \E i \in 1..n : 1000 * P[i] > 9 * Percentile100(above, 80)
        \/ ~ \E i \in 1..n : 100 * P[i] < Percentile100(below, 20)

\* line 255: the analyzer runs only if the archive holds more than one entry
AnalyzerRuns(arch) == Len(arch) > 1

(***************************************************************************)
(* The valve command mapper.  The inlet command is a number in tenths;     *)
(* int() drops its fraction (towards zero).  The two tests are `is not`,   *)
(* tests of object identity: the inlet values compared are ints between 0  *)
(* and 100, which CPython keeps as single objects, so there identity is    *)
(* equality; the outlet command is forwarded as the controller gave it,    *)
(* and an object the controller made for this iteration (a float, a numpy  *)
(* scalar: `fresh`) is identical to no cached object, whatever its value.  *)
(* wrote_in and wrote_ex record whether the call wrote to the hardware.    *)
(***************************************************************************)
\* a faulty variant of IntOf: rounding to the nearest integer
IntOf_Rounded(v) == IF v >= 0 THEN (v + 5) \div 10 ELSE -((5 - v) \div 10)

\* int(v), v in tenths
IntOf(v) == IF v >= 0 THEN v \div 10 ELSE -((-v) \div 10)

\* a faulty variant of ClampValve: no upper limit
ClampValve_NoCeiling(v) == Max(IntOf(v), 0)

ClampValve(v) == Max(Min(VALVE_MAX, IntOf(v)), 0)

\* a faulty variant of IsNot: a comparison that never finds a difference
IsNot_Never(a, a_fresh, b, b_fresh) == FALSE

\* a `is not` b
IsNot(a, a_fresh, b, b_fresh) == a_fresh \/ b_fresh \/ a # b

set_HAL(h, valve_open_in, valve_open_out, out_fresh) ==
    LET v == ClampValve(valve_open_in)
        write_in == IsNot(h.current_setting_in, FALSE, v, FALSE)
        write_ex == IsNot(h.current_setting_ex, h.ex_fresh,
                          valve_open_out, out_fresh)
    IN  [setpoint_in |-> IF write_in THEN v ELSE h.setpoint_in,
         current_setting_in |-> IF write_in THEN v ELSE h.current_setting_in,
         setpoint_ex |-> IF write_ex THEN valve_open_out ELSE h.setpoint_ex,
         current_setting_ex |->
             IF write_ex THEN valve_open_out ELSE h.current_setting_ex,
         ex_fresh |-> IF write_ex THEN out_fresh ELSE h.ex_fresh,
         wrote_in |-> write_in,
         wrote_ex |-> write_ex]

\* the literals 0 and 1 of line 745
set_valves_standby(h) == set_HAL(h, 0, 1, FALSE)

\* the SensorValues that ControlModuleDevice._sensor_to_COPY publishes
SensorValues(d, h) ==
    [PRESSURE |-> d.PRESSURE, FIO2 |-> h.setpoint_ex, FLOWOUT |-> h.setpoint_in,
     loop_counter |-> loop_counter, breath_count |-> DATA_BREATH_COUNT]

\* a faulty variant of controls_from_COPY: the copy made the wrong way round
controls_from_COPY_Reversed(set, copy) == [SET |-> set, COPY_SET |-> set]

\* _controls_from_COPY: the working copy becomes the shared copy, which stays
controls_from_COPY(set, copy) == [SET |-> copy, COPY_SET |-> copy]


(***************************************************************************)
(* The state after ControlModuleDevice.__init__.  The working PIP and PEEP *)
(* are the constructor's keyword arguments; the shared copy holds the      *)
(* defaults.  The constructor's _sensor_to_COPY has published a first      *)
(* snapshot from the reading InitReading.                                  *)
(***************************************************************************)
KwargValues == {2}

InitReading == [ph |-> 0, p |-> 1, q |-> 0, o2 |-> 21, dt |-> 1, u_in |-> 0, u_out |-> 0]

StartOfTime == OXYGEN_PERIOD + 1

\* the last call of the coordinator that has returned: its result (or the
\* exception it raised) and, for set_control and get_control, the setting
\* name it was given
Returned(op, val, exc) == [op |-> op, val |-> val, exc |-> exc, arg |-> ""]

ReturnedFor(name, op, val, exc) ==
    [op |-> op, val |-> val, exc |-> exc, arg |-> name]

Init ==
    /\ COPY_SET = [n \in ControlNames |-> CONTROL_DEFAULT]
    /\ \E pip \in KwargValues, peep \in KwargValues :
           SET = [n \in ControlNames |->
                     IF n = "PIP" THEN pip
                     ELSE IF n = "PEEP" THEN peep ELSE CONTROL_DEFAULT]
    /\ limit_hapa = LIMIT_HAPA_DEFAULT
    /\ HAPA = None
    /\ TECHA = <<>>
    /\ release_cycles = 0
    /\ running = FALSE
    /\ lock = Unlocked
    /\ thr = <<>>
    /\ cur = 0
    /\ loop_counter = 0
    /\ control_signal_in = 0
    /\ control_signal_out = 0
    /\ now = StartOfTime
    /\ data = get_HAL([PRESSURE |-> 0, VOLUME |-> 0, Qout |-> 0, OXYGEN |-> 0,
                       COPY_OXYGEN |-> 0, OXYGEN_LAST_READ |-> 0],
                      InitReading, CONTROL_DEFAULT, StartOfTime)
    /\ DATA_old = <<>>
    /\ sensor_stuck_since = None
    /\ DATA_BREATH_COUNT = 0
    /\ breath_counter = 0
    /\ cycle_waveform = << <<0, 0, 0>> >>
    /\ archive = <<>>
    /\ \E ex \in {0, 1} :
           hal = [setpoint_in |-> 0, setpoint_ex |-> ex,
                  current_setting_in |-> 0, current_setting_ex |-> ex,
                  ex_fresh |-> FALSE, wrote_in |-> FALSE, wrote_ex |-> FALSE]
    /\ COPY_sensor_values =
           [PRESSURE |-> data.PRESSURE, FIO2 |-> hal.setpoint_ex,
            FLOWOUT |-> hal.setpoint_in, loop_counter |-> 0, breath_count |-> 0]
    /\ time_last_contact = StartOfTime
    /\ dl_closed = FALSE
    /\ co = [pc |-> "idle", arg |-> None]
    /\ calls = <<>>
    /\ ret = Returned("init", None, "")
    /\ unlocked = {}
    /\ obs = <<>>
    /\ last_set = [n \in ControlNames |-> CONTROL_DEFAULT]
    /\ breath_ids = <<>>
    /\ archived = 0
    /\ held_io = {}
    /\ late_store = FALSE

(***************************************************************************)
(* The coordinator's public methods.                                       *)
(***************************************************************************)
Idle == co.pc = "idle"

Called(op) == IF Len(calls) < 2 THEN Append(calls, op) ELSE <<calls[2], op>>

\* where a new thread object goes: the slot of a dead one, or a new slot
SpawnSlot ==
    IF \E i \in 1..Len(thr) : ~is_alive(i)
    THEN CHOOSE i \in 1..Len(thr) : ~is_alive(i)
    ELSE Len(thr) + 1

Spawned ==
    IF SpawnSlot > Len(thr) THEN Append(thr, NewThread)
    ELSE [thr EXCEPT ![SpawnSlot] = NewThread]

\* a faulty variant of StartSpawns: start() without the test of line 566
StartSpawns_Always == TRUE

\* line 566: self.__thread is None or not self.__thread.is_alive()
StartSpawns == cur = 0 \/ ~is_alive(cur)

start ==
    /\ Idle
    /\ time_last_contact' = now
    /\ IF StartSpawns
       THEN /\ running' = TRUE
            /\ thr' = Spawned
            /\ cur' = SpawnSlot
       ELSE UNCHANGED <<running, thr, cur>>
    /\ calls' = Called("start")
    /\ ret' = Returned("start", None, "")
    /\ UNCHANGED <<ctlVars, alarmVars, segVars, sigVars, COPY_sensor_values,
                   lock, loop_counter, data, hal, now, dl_closed, co,
                   unlocked, obs, last_set, breath_ids,
                   archived, held_io, late_store>>

\* line 577: the flag is cleared only if the thread is alive
StopClears == cur # 0 /\ is_alive(cur)

stop ==
    /\ Idle
    /\ time_last_contact' = now
    /\ running' = IF StopClears THEN FALSE ELSE running
    /\ dl_closed' = TRUE
    /\ calls' = Called("stop")
    /\ ret' = Returned("stop", None, "")
    /\ UNCHANGED <<ctlVars, alarmVars, segVars, sigVars, COPY_sensor_values,
                   lock, thr, cur, loop_counter, data, hal, now, co,
                   unlocked, obs, last_set, breath_ids,
                   archived, held_io, late_store>>

(***************************************************************************)
(* interrupt().  The coordinator never holds the lock when it calls a      *)
(* method, so the lock is free or held by a loop thread.  Released while   *)
(* free, threading.Lock raises RuntimeError: interrupt ends there, the     *)
(* flag cleared.  Otherwise the holder's lock object is released under it  *)
(* and replaced, the flag is set, and a thread is spawned only if          *)
(* self.__thread is not alive (None has no is_alive: AttributeError).      *)
(***************************************************************************)
\* a faulty variant of InterruptSpawns: interrupt() without the test of line 601
InterruptSpawns_Always == cur # 0

\* lines 601-605: a thread is spawned unless self.__thread is alive
InterruptSpawns == cur # 0 /\ ~is_alive(cur)

interrupt ==
    /\ Idle
    /\ calls' = Called("interrupt")
    /\ IF lock = Unlocked
       THEN /\ running' = FALSE
            /\ ret' = Returned("interrupt", None, "RuntimeError")
            /\ UNCHANGED <<lock, thr, cur>>
       ELSE /\ running' = TRUE
            /\ lock' = Unlocked
            /\ LET held == [thr EXCEPT ![lock].stale = TRUE]
               IN  IF InterruptSpawns
                   THEN /\ thr' = IF SpawnSlot > Len(thr)
                                  THEN Append(held, NewThread)
                                  ELSE [held EXCEPT ![SpawnSlot] = NewThread]
                        /\ cur' = SpawnSlot
                   ELSE /\ thr' = held
                        /\ cur' = cur
            /\ ret' = Returned("interrupt", None,
                               IF cur = 0 THEN "AttributeError" ELSE "")
    /\ UNCHANGED <<ctlVars, alarmVars, segVars, sigVars, COPY_sensor_values,
                   loop_counter, data, hal, time_last_contact, now, dl_closed,
                   co, unlocked, obs, last_set, breath_ids,
                   archived, held_io, late_store>>

is_running ==
    /\ Idle
    /\ time_last_contact' = now
    /\ ret' = Returned("is_running", running, "")
    /\ UNCHANGED <<ctlVars, alarmVars, lifeVars, segVars, sigVars,
                   COPY_sensor_values, loop_counter, data, hal, now, dl_closed,
                   co, calls, unlocked, obs, last_set, breath_ids,
                   archived, held_io, late_store>>

get_heartbeat ==
    /\ Idle
    /\ time_last_contact' = now
    /\ ret' = Returned("get_heartbeat", loop_counter, "")
    /\ UNCHANGED <<ctlVars, alarmVars, lifeVars, segVars, sigVars,
                   COPY_sensor_values, loop_counter, data, hal, now, dl_closed,
                   co, calls, unlocked, obs, last_set, breath_ids,
                   archived, held_io, late_store>>

get_sensors ==
    /\ Idle
    /\ lock = Unlocked
    /\ time_last_contact' = now
    /\ ret' = Returned("get_sensors", COPY_sensor_values, "")
    /\ UNCHANGED <<ctlVars, alarmVars, lifeVars, segVars, sigVars,
                   COPY_sensor_values, loop_counter, data, hal, now, dl_closed,
                   co, calls, unlocked, obs, last_set, breath_ids,
                   archived, held_io, late_store>>

\* a faulty variant of AlarmTuple: the technical alarms alone when both exist
AlarmTuple_TechaOnly(hapa, techa) ==
    IF Len(techa) > 0 THEN <<"techa">>
    ELSE IF hapa # None THEN <<"hapa">>
    ELSE <<>>

\* lines 329-336: the tuple returned, as the list of its members' names
AlarmTuple(hapa, techa) ==
    IF hapa # None /\ Len(techa) > 0 THEN <<"hapa", "techa">>
    ELSE IF hapa # None THEN <<"hapa">>
    ELSE IF Len(techa) > 0 THEN <<"techa">>
    ELSE <<>>

get_alarms ==
    /\ Idle
    /\ lock = Unlocked
    /\ ret' = Returned("get_alarms",
                       [tuple |-> AlarmTuple(HAPA, TECHA), hapa |-> HAPA,
                        techa |-> TECHA], "")
    /\ UNCHANGED <<ctlVars, alarmVars, lifeVars, segVars, sigVars,
                   COPY_sensor_values, loop_counter, data, hal,
                   time_last_contact, now, dl_closed, co, calls, unlocked, obs,
                   last_set, breath_ids,
                   archived, held_io, late_store>>

(***************************************************************************)
(* set_control(ControlSetting(name, value, max_value)): the value is       *)
(* stored under the lock; an unknown name returns from inside the block.   *)
(* A PIP setting with a max_value then takes the lock a second time        *)
(* (set_control_limit) to store the HAPA limit.                            *)
(***************************************************************************)
\* a faulty variant of LimitApplies: the limit stored for any name
LimitApplies_AnyName(name, max_value) == max_value # None

\* a faulty variant of LimitApplies: the max_value never stored
LimitApplies_Never(name, max_value) == FALSE

\* lines 370-371: only a PIP setting carries the HAPA limit
LimitApplies(name, max_value) == name = "PIP" /\ max_value # None

\* lines 365-366, inside the with-block: self.dl.store_control_command, made
\* if self._save_logs (ControlModuleDevice's default, line 631)
LoggedUnderLock == {"store_control_command"}

set_control(name, value, max_value) ==
    /\ Idle
    /\ value # None => lock = Unlocked
    /\ calls' = calls
    /\ IF value # None /\ name \notin ControlNames
       THEN /\ ret' = ReturnedFor(name, "set_control", None, "")
            /\ UNCHANGED <<COPY_SET, last_set, co, time_last_contact, held_io>>
       ELSE /\ COPY_SET' = IF value # None
                           THEN [COPY_SET EXCEPT ![name] = value] ELSE COPY_SET
            /\ last_set' = IF value # None
                           THEN [last_set EXCEPT ![name] = value] ELSE last_set
            /\ held_io' = IF value # None
                          THEN held_io \cup LoggedUnderLock ELSE held_io
            /\ IF LimitApplies(name, max_value)
               THEN /\ co' = [pc |-> "sc_limit", arg |-> max_value]
                    /\ UNCHANGED <<ret, time_last_contact>>
               ELSE /\ time_last_contact' = now
                    /\ ret' = ReturnedFor(name, "set_control", None, "")
                    /\ co' = co
    /\ UNCHANGED <<SET, limit_hapa, alarmVars, lifeVars, segVars, sigVars,
                   COPY_sensor_values, loop_counter, data, hal, now, dl_closed,
                   unlocked, obs, breath_ids,
                   archived, late_store>>

set_control_limit ==
    /\ co.pc = "sc_limit"
    /\ lock = Unlocked
    /\ limit_hapa' = co.arg
    /\ time_last_contact' = now
    /\ co' = [pc |-> "idle", arg |-> None]
    /\ ret' = ReturnedFor("PIP", "set_control", None, "")
    /\ UNCHANGED <<COPY_SET, SET, alarmVars, lifeVars, segVars, sigVars,
                   COPY_sensor_values, loop_counter, data, hal, now, dl_closed,
                   calls, unlocked, obs, last_set, breath_ids,
                   archived, held_io, late_store>>

\* what get_control returns: a ControlSetting(name, value), or None for an
\* unknown name (here the empty tuple, which compares with a ControlSetting)
ControlSetting(name, value) == <<name, value>>

NoControlSetting == <<>>

get_control(name) ==
    /\ Idle
    /\ lock = Unlocked
    /\ time_last_contact' = now
    /\ ret' = ReturnedFor(name, "get_control",
                       IF name \in ControlNames
                       THEN ControlSetting(name, COPY_SET[name])
                       ELSE NoControlSetting, "")
    /\ UNCHANGED <<ctlVars, alarmVars, lifeVars, segVars, sigVars,
                   COPY_sensor_values, loop_counter, data, hal, now, dl_closed,
                   co, calls, unlocked, obs, last_set, breath_ids,
                   archived, held_io, late_store>>

(***************************************************************************)
(* get_past_waveforms(), statement by statement: the loop thread appends   *)
(* to the archive without the lock, so the three statements inside the     *)
(* block are not atomic for it.                                            *)
(***************************************************************************)
\* line 554: archive = list(self.__cycle_waveform_archive)
gpw_copy ==
    /\ Idle
    /\ lock = Unlocked
    /\ lock' = Coordinator
    /\ co' = [pc |-> "gpw_swap", arg |-> archive]
    /\ UNCHANGED <<ctlVars, alarmVars, running, thr, cur, segVars, sigVars,
                   COPY_sensor_values, loop_counter, data, hal,
                   time_last_contact, now, dl_closed, calls, ret, unlocked, obs,
                   last_set, breath_ids,
                   archived, held_io, late_store>>

\* line 555: self.__cycle_waveform_archive = deque(maxlen=...)
gpw_swap ==
    /\ co.pc = "gpw_swap"
    /\ archive' = <<>>
    /\ co' = [co EXCEPT !.pc = "gpw_append"]
    /\ UNCHANGED <<ctlVars, alarmVars, lifeVars, DATA_BREATH_COUNT,
                   breath_counter, cycle_waveform, sigVars, COPY_sensor_values,
                   loop_counter, data, hal, time_last_contact, now, dl_closed,
                   calls, ret, unlocked, obs, last_set, breath_ids,
                   archived, held_io, late_store>>

\* what line 556 appends: archive[-1]; the copied list must not be empty
SeedOf(copied) == Last(copied)

\* line 556 and the return; archive[-1] of an empty list raises IndexError
gpw_append ==
    /\ co.pc = "gpw_append"
    /\ lock' = Unlocked
    /\ co' = [pc |-> "idle", arg |-> None]
    /\ IF co.arg = <<>>
       THEN /\ ret' = Returned("get_past_waveforms", <<>>, "IndexError")
            /\ UNCHANGED <<archive, time_last_contact>>
       ELSE /\ archive' = DequeAppend(archive, SeedOf(co.arg))
            /\ time_last_contact' = now
            /\ ret' = Returned("get_past_waveforms", co.arg, "")
    /\ UNCHANGED <<ctlVars, alarmVars, running, thr, cur, DATA_BREATH_COUNT,
                   breath_counter, cycle_waveform, sigVars, COPY_sensor_values,
                   loop_counter, data, hal, now, dl_closed, calls, unlocked,
                   obs, last_set, breath_ids,
                   archived, held_io, late_store>>


(***************************************************************************)
(* The loop thread: ControlModuleDevice._start_mainloop.                   *)
(***************************************************************************)
At(t, pcs) == t \in 1..Len(thr) /\ thr[t].pc \in pcs

\* the loop thread calls the data logger (store_derived_data of line 311,
\* flush_logfile and rotation_newfile of lines 513-514, store_waveform_data
\* of line 544) if `calls`: it does so late if stop() has closed the file
LoggedLate(calls_logger) == late_store \/ (calls_logger /\ dl_closed)

\* a faulty variant of LoopContinues: a loop that ends when an alarm is up
LoopContinues_UnlessAlarm == running /\ HAPA = None /\ TECHA = <<>>

\* line 756: while self._running.is_set()
LoopContinues == running

\* line 756-757: the test of the running flag, and the loop counter
LoopTop(t, max_loops) ==
    /\ At(t, {"top"})
    /\ IF LoopContinues
       THEN /\ loop_counter < max_loops
            /\ loop_counter' = loop_counter + 1
            /\ thr' = [thr EXCEPT ![t].pc = "body", ![t].since = @ + 1]
       ELSE /\ loop_counter' = loop_counter
            /\ thr' = [thr EXCEPT ![t].pc = "fin_ctl_acq"]
    /\ unlocked' = {}
    /\ UNCHANGED <<ctlVars, alarmVars, running, lock, cur, segVars, sigVars,
                   COPY_sensor_values, data, hal, time_last_contact, now,
                   dl_closed, co, calls, ret, obs, last_set, breath_ids,
                   archived, held_io, late_store>>

(***************************************************************************)
(* Lines 758-786: the readings, the volume integration, the controller's   *)
(* command, the alarm checks and the segmenter, up to the republication    *)
(* that __start_new_breathcycle ends with.  r.p stands for the mean of the *)
(* last five pressure readings (arbitrary readings give an arbitrary       *)
(* mean).  The assignment of cycle_phase (line 786) is local to the thread *)
(* and is made here.  A waveform of MaxSamples samples is only continued   *)
(* by a new breath.                                                        *)
(***************************************************************************)
LoopBody(t, r, observe) ==
    /\ At(t, {"body"})
    /\ LET cycle_phase == thr[t].cycle_phase
           new_breath == IsNewBreath(cycle_phase, r.ph)
           d1 == get_HAL(data, r, COPY_SET["INSPIRATION_TIME_SEC"], now)
           d2 == [d1 EXCEPT !.VOLUME = @ + ClampDt(r.dt) * d1.Qout]
           a == test_for_alarms(d2, r.u_in, r.u_out)
           arch1 == ArchiveClosed(archive, cycle_waveform)
           raises == AnalyzerRuns(arch1) /\ AnalyzerRaises(Last(arch1))
       IN  /\ Len(cycle_waveform) < MaxSamples \/ new_breath
           /\ HAPA' = a.HAPA
           /\ TECHA' = a.TECHA
           /\ release_cycles' = a.cycles
           /\ DATA_old' = a.DATA_old
           /\ sensor_stuck_since' = a.stuck
           /\ now' = a.now
           /\ SET' = IF a.forced THEN [SET EXCEPT !["PIP"] = HAPA_PIP] ELSE SET
           /\ control_signal_in' = a.cin
           /\ control_signal_out' = a.cout
           /\ obs' = IF observe THEN Append(obs, <<r.ph, new_breath>>) ELSE obs
           /\ late_store' = LoggedLate(new_breath /\ AnalyzerRuns(arch1)
                                           /\ ~raises)
           /\ IF new_breath
              THEN /\ data' = [d2 EXCEPT !.VOLUME = 0]
                   /\ DATA_BREATH_COUNT' = NextCount(breath_counter)
                   /\ breath_counter' = breath_counter + 1
                   /\ breath_ids' = Append(breath_ids, DATA_BREATH_COUNT')
                   /\ archive' = arch1
                   /\ archived' = IF Len(cycle_waveform) > 1 THEN archived + 1
                                  ELSE archived
                   /\ cycle_waveform' = << <<0, d2.PRESSURE, 0>> >>
                   /\ thr' = IF raises
                             THEN [thr EXCEPT ![t] = DeadThread("crashed")]
                             ELSE [thr EXCEPT ![t].pc = "nb_acq",
                                              ![t].cycle_phase = r.ph]
              ELSE /\ data' = d2
                   /\ cycle_waveform' =
                          Append(cycle_waveform,
                                 <<cycle_phase, d2.PRESSURE, d2.VOLUME>>)
                   /\ thr' = [thr EXCEPT ![t].pc = "write",
                                         ![t].cycle_phase = r.ph]
                   /\ UNCHANGED <<DATA_BREATH_COUNT, breath_counter, archive,
                                  breath_ids, archived, held_io>>
    /\ unlocked' = {"COPY_SET_I_PHASE", "limit_hapa", "HAPA", "TECHA"}
    /\ UNCHANGED <<COPY_SET, limit_hapa, running, lock, cur, loop_counter,
                   COPY_sensor_values, hal, time_last_contact, dl_closed, co,
                   calls, ret, last_set, held_io>>

\* _sensor_to_COPY: _get_HAL, then the snapshot is replaced under the lock
SensorAcquire(t, r) ==
    /\ At(t, {"nb_acq", "sen_acq", "fin_sen_acq"})
    /\ lock = Unlocked
    /\ lock' = t
    /\ data' = get_HAL(data, r, COPY_SET["INSPIRATION_TIME_SEC"], now)
    /\ COPY_sensor_values' = SensorValues(data', hal)
    /\ thr' = [thr EXCEPT ![t].pc =
                  CASE thr[t].pc = "nb_acq" -> "nb_rel"
                    [] thr[t].pc = "sen_acq" -> "sen_rel"
                    [] thr[t].pc = "fin_sen_acq" -> "fin_sen_rel"]
    /\ unlocked' = {"COPY_SET_I_PHASE"}
    /\ UNCHANGED <<ctlVars, alarmVars, running, cur, segVars, sigVars,
                   loop_counter, hal, time_last_contact, now, dl_closed, co,
                   calls, ret, obs, last_set, breath_ids,
                   archived, held_io, late_store>>

\* _controls_from_COPY: the shared copy is read under the lock
ControlsAcquire(t) ==
    /\ At(t, {"ctl_acq", "fin_ctl_acq"})
    /\ lock = Unlocked
    /\ lock' = t
    /\ SET' = controls_from_COPY(SET, COPY_SET).SET
    /\ COPY_SET' = controls_from_COPY(SET, COPY_SET).COPY_SET
    /\ thr' = [thr EXCEPT ![t].pc =
                  IF thr[t].pc = "ctl_acq" THEN "ctl_rel" ELSE "fin_ctl_rel",
                           ![t].since = 0]
    /\ unlocked' = {}
    /\ UNCHANGED <<limit_hapa, alarmVars, running, cur, segVars,
                   sigVars, COPY_sensor_values, loop_counter, data, hal,
                   time_last_contact, now, dl_closed, co, calls, ret, obs,
                   last_set, breath_ids,
                   archived, held_io, late_store>>

(***************************************************************************)
(* The end of a `with self._lock` block.  The block releases the lock      *)
(* object it acquired: if interrupt() has released it already, release     *)
(* raises RuntimeError and the thread dies.  After the last block of the   *)
(* thread (line 804) comes set_valves_standby and the thread's exit.       *)
(***************************************************************************)
Release(t) ==
    /\ At(t, InCritical)
    /\ late_store' = LoggedLate(/\ ~thr[t].stale
                                /\ thr[t].pc = "nb_rel"
                                /\ DATA_BREATH_COUNT % FLUSH_EVERY = 0)
    /\ IF thr[t].stale
       THEN /\ thr' = [thr EXCEPT ![t] = DeadThread("crashed")]
            /\ UNCHANGED <<lock, hal>>
       ELSE /\ lock' = Unlocked
            /\ IF thr[t].pc = "fin_sen_rel"
               THEN /\ hal' = set_valves_standby(hal)
                    /\ thr' = [thr EXCEPT ![t] = DeadThread("exited")]
               ELSE /\ hal' = hal
                    /\ thr' = [thr EXCEPT
                                  ![t].pc = AfterRelease(thr[t].pc),
                                  ![t].update_copies =
                                      IF thr[t].pc = "sen_rel"
                                      THEN LOOPS_UNTIL_UPDATE ELSE @]
    /\ unlocked' = {}
    /\ UNCHANGED <<ctlVars, alarmVars, running, cur, segVars, sigVars,
                   COPY_sensor_values, loop_counter, data, time_last_contact,
                   now, dl_closed, co, calls, ret, obs, last_set, breath_ids,
                   archived, held_io>>

\* lines 788-800: the record of the iteration given to the logger
\* (__save_values), the hardware write and the countdown to the next resync.
\* fresh: the controller made the outlet command of this iteration anew; a
\* forced release has replaced it by the literal 1.
LoopWrite(t, fresh) ==
    /\ At(t, {"write"})
    /\ late_store' = LoggedLate(TRUE)
    /\ hal' = set_HAL(hal, control_signal_in, control_signal_out,
                      fresh /\ release_cycles = 0)
    /\ thr' = IF thr[t].update_copies = 0
              THEN [thr EXCEPT ![t].pc = "ctl_acq"]
              ELSE [thr EXCEPT ![t].pc = "top",
                               ![t].update_copies = @ - 1]
    /\ unlocked' = {}
    /\ UNCHANGED <<ctlVars, alarmVars, running, lock, cur, segVars, sigVars,
                   COPY_sensor_values, loop_counter, data, time_last_contact,
                   now, dl_closed, co, calls, ret, obs, last_set, breath_ids,
                   archived, held_io>>

\* the passage of time
Tick ==
    /\ now < StartOfTime + MaxTime
    /\ now' = now + 1
    /\ UNCHANGED <<ctlVars, alarmVars, lifeVars, segVars, sigVars,
                   COPY_sensor_values, loop_counter, data, hal,
                   time_last_contact, dl_closed, co, calls, ret, unlocked, obs,
                   last_set, breath_ids,
                   archived, held_io, late_store>>

(***************************************************************************)
(* Spec: the lifecycle of the loop thread.  The coordinator starts, stops  *)
(* and interrupts; the loop reads a steady pressure under the HAPA limit   *)
(* and a phase that rises and wraps.                                       *)
(***************************************************************************)
Reading(ph, p, uin, uout) ==
    [ph |-> ph, p |-> p, q |-> 0, o2 |-> 21, dt |-> 1, u_in |-> uin, u_out |-> uout]

LifeReadings == {Reading(0, 1, 400, 0), Reading(1, 1, 400, 0)}

Threads == 1..Len(thr)

Next ==
    \/ start
    \/ stop
    \/ interrupt
    \/ \E t \in Threads : LoopTop(t, MaxLoops)
    \/ \E t \in Threads, r \in LifeReadings : LoopBody(t, r, FALSE)
    \/ \E t \in Threads, r \in LifeReadings : SensorAcquire(t, r)
    \/ \E t \in Threads : ControlsAcquire(t)
    \/ \E t \in Threads : Release(t)
    \/ \E t \in Threads : LoopWrite(t, FALSE)

Spec == Init /\ [][Next]_vars

(***************************************************************************)
(* CtlSpec: the parameter exchange.  The coordinator sets and gets PIP     *)
(* (with and without a max_value), PEEP_TIME and the unknown name FIO2,    *)
(* while a loop thread iterates and resyncs.                               *)
(***************************************************************************)
CtlNames == {"PIP", "PEEP_TIME", "FIO2"}
CtlValues == {None, 1, 2}
CtlMaxValues == {None, 3}

CtlNext ==
    \/ start
    \/ \E n \in CtlNames, v \in CtlValues, m \in CtlMaxValues :
           set_control(n, v, m)
    \/ set_control_limit
    \/ \E n \in CtlNames : get_control(n)
    \/ \E t \in Threads : LoopTop(t, CtlMaxLoops)
    \/ \E t \in Threads, r \in LifeReadings : LoopBody(t, r, FALSE)
    \/ \E t \in Threads, r \in LifeReadings : SensorAcquire(t, r)
    \/ \E t \in Threads : ControlsAcquire(t)
    \/ \E t \in Threads : Release(t)
    \/ \E t \in Threads : LoopWrite(t, FALSE)

CtlSpec == Init /\ [][CtlNext]_vars

(***************************************************************************)
(* SegSpec: the segmenter and the ring buffer.  The pressure follows the   *)
(* phase (1, 2, 6 at phases 0, 1, 2), so that a full breath has samples    *)
(* on both sides of its mean; the coordinator drains the archive.          *)
(***************************************************************************)
SegReadings == {Reading(0, 1, 400, 0), Reading(1, 2, 400, 0), Reading(2, 6, 400, 0)}

\* the controller's phase rises by one step within a breath, or starts again
SegFollows(t, r) ==
    \/ thr[t].cycle_phase = None
    \/ r.ph = 0
    \/ r.ph = thr[t].cycle_phase + 1

SegNext ==
    \/ start
    \/ gpw_copy
    \/ gpw_swap
    \/ gpw_append
    \/ \E t \in Threads : LoopTop(t, SegMaxLoops)
    \/ \E t \in Threads, r \in SegReadings :
           SegFollows(t, r) /\ LoopBody(t, r, FALSE)
    \/ \E t \in Threads : SensorAcquire(t, Reading(0, 1, 400, 0))
    \/ \E t \in Threads : ControlsAcquire(t)
    \/ \E t \in Threads : Release(t)
    \/ \E t \in Threads : LoopWrite(t, FALSE)

SegSpec == Init /\ [][SegNext]_vars

(***************************************************************************)
(* AnalyzeSpec: the segmenter under a phase that may fall in any           *)
(* iteration, also in two iterations running; the pressure follows the     *)
(* phase as in SegSpec.                                                    *)
(***************************************************************************)
AnalyzeMaxLoops == 7

AnalyzeNext ==
    \/ start
    \/ \E t \in Threads : LoopTop(t, AnalyzeMaxLoops)
    \/ \E t \in Threads, r \in SegReadings : LoopBody(t, r, FALSE)
    \/ \E t \in Threads : SensorAcquire(t, Reading(0, 1, 400, 0))
    \/ \E t \in Threads : ControlsAcquire(t)
    \/ \E t \in Threads : Release(t)
    \/ \E t \in Threads : LoopWrite(t, FALSE)

AnalyzeSpec == Init /\ [][AnalyzeNext]_vars

(***************************************************************************)
(* PhaseSpec: a loop thread whose controller reports phases out of         *)
(* 0.05, 0.1, 0.2, 0.3, 0.6 s; the phases and the new-breath events of     *)
(* the iterations are recorded in obs.                                     *)
(***************************************************************************)
ObservedLoops == 5

PhaseReadings == {Reading(ph, 1, 400, 0) : ph \in {5, 10, 20, 30, 60}}

PhaseNext ==
    \/ start
    \/ \E t \in Threads : LoopTop(t, ObservedLoops)
    \/ \E t \in Threads, r \in PhaseReadings : LoopBody(t, r, TRUE)
    \/ \E t \in Threads, r \in PhaseReadings : SensorAcquire(t, r)
    \/ \E t \in Threads : ControlsAcquire(t)
    \/ \E t \in Threads : Release(t)
    \/ \E t \in Threads : LoopWrite(t, FALSE)

PhaseSpec == Init /\ [][PhaseNext]_vars

(***************************************************************************)
(* AlarmSpec: the alarm checks.  Time passes; the pressure is normal (1),  *)
(* above the HAPA limit (5) or beyond what the hardware can deliver (101); *)
(* the phase stays within one breath.                                      *)
(***************************************************************************)
AlarmMaxLoops == 3

AlarmReadings ==
    {[ph |-> 1, p |-> p, q |-> 0, o2 |-> 21, dt |-> 1,
      u_in |-> 400, u_out |-> 0] : p \in {1, 5, 101}}

AlarmNext ==
    \/ start
    \/ Tick
    \/ \E t \in Threads : LoopTop(t, AlarmMaxLoops)
    \/ \E t \in Threads, r \in AlarmReadings : LoopBody(t, r, FALSE)
    \/ \E t \in Threads : SensorAcquire(t, Reading(0, 1, 400, 0))
    \/ \E t \in Threads : ControlsAcquire(t)
    \/ \E t \in Threads : Release(t)
    \/ \E t \in Threads : LoopWrite(t, FALSE)

AlarmSpec == Init /\ [][AlarmNext]_vars

(***************************************************************************)
(* StuckSpec: the loop on readings that change.  The phase is inspiration  *)
(* (0) or expiration (1), the pressure stays under the HAPA limit, the     *)
(* flow out (measured in expiration only) is 3 and the oxygen cell reads   *)
(* 21.                                                                     *)
(***************************************************************************)
StuckMaxLoops == 4

StuckReadings ==
    {[ph |-> ph, p |-> p, q |-> q, o2 |-> 21, dt |-> 1,
      u_in |-> 400, u_out |-> 0] : ph \in {0, 1}, p \in {1, 2}, q \in {3}}

StuckNext ==
    \/ start
    \/ Tick
    \/ \E t \in Threads : LoopTop(t, StuckMaxLoops)
    \/ \E t \in Threads, r \in StuckReadings : LoopBody(t, r, FALSE)
    \/ \E t \in Threads : SensorAcquire(t, Reading(0, 1, 400, 0))
    \/ \E t \in Threads : ControlsAcquire(t)
    \/ \E t \in Threads : Release(t)
    \/ \E t \in Threads : LoopWrite(t, FALSE)

StuckSpec == Init /\ [][StuckNext]_vars

(***************************************************************************)
(* InterruptSpec: a coordinator that starts and interrupts the loop and    *)
(* drains the waveform archive, whose block under the lock takes three     *)
(* statements.                                                             *)
(***************************************************************************)
InterruptMaxLoops == 3

InterruptNext ==
    \/ start
    \/ interrupt
    \/ gpw_copy
    \/ gpw_swap
    \/ gpw_append
    \/ \E t \in Threads : LoopTop(t, InterruptMaxLoops)
    \/ \E t \in Threads, r \in LifeReadings : LoopBody(t, r, FALSE)
    \/ \E t \in Threads, r \in LifeReadings : SensorAcquire(t, r)
    \/ \E t \in Threads : ControlsAcquire(t)
    \/ \E t \in Threads : Release(t)
    \/ \E t \in Threads : LoopWrite(t, FALSE)

InterruptSpec == Init /\ [][InterruptNext]_vars

(***************************************************************************)
(* ReportSpec: AlarmSpec with a coordinator that asks for the alarms.      *)
(***************************************************************************)
ReportNext ==
    \/ AlarmNext
    \/ get_alarms

ReportSpec == Init /\ [][ReportNext]_vars

(***************************************************************************)
(* LatchSpec: a coordinator that starts, stops and interrupts the loop and *)
(* asks for the alarms; the pressure read is plausible (1) or not (101).   *)
(***************************************************************************)
LatchMaxLoops == 3

LatchReadings == {Reading(1, 1, 400, 0), Reading(1, 101, 400, 0)}

LatchNext ==
    \/ start
    \/ stop
    \/ interrupt
    \/ get_alarms
    \/ \E t \in Threads : LoopTop(t, LatchMaxLoops)
    \/ \E t \in Threads, r \in LatchReadings : LoopBody(t, r, FALSE)
    \/ \E t \in Threads : SensorAcquire(t, Reading(0, 1, 400, 0))
    \/ \E t \in Threads : ControlsAcquire(t)
    \/ \E t \in Threads : Release(t)
    \/ \E t \in Threads : LoopWrite(t, FALSE)

LatchSpec == Init /\ [][LatchNext]_vars

(***************************************************************************)
(* AlarmLiveSpec: AlarmSpec with a loop thread that is scheduled: a step   *)
(* of the thread that stays possible is taken.  The clock and the          *)
(* coordinator are under no such obligation.                               *)
(***************************************************************************)
AlarmLoopStep ==
    \E t \in Threads :
        \/ LoopTop(t, AlarmMaxLoops)
        \/ \E r \in AlarmReadings : LoopBody(t, r, FALSE)
        \/ SensorAcquire(t, Reading(0, 1, 400, 0))
        \/ ControlsAcquire(t)
        \/ Release(t)
        \/ LoopWrite(t, FALSE)

AlarmLiveSpec == AlarmSpec /\ WF_vars(AlarmLoopStep)

(***************************************************************************)
(* AccessSpec: the coordinator's calls while time passes.  Every public    *)
(* method is called, set_control and get_control with the names PIP and    *)
(* the unknown FIO2; a loop thread makes its first iteration.              *)
(***************************************************************************)
AccessMaxLoops == 1
AccessNames == {"PIP", "FIO2"}
AccessValues == {None, 1}
AccessMaxValues == {None, 3}

AccessNext ==
    \/ start
    \/ stop
    \/ Tick
    \/ get_sensors
    \/ get_alarms
    \/ is_running
    \/ get_heartbeat
    \/ \E n \in AccessNames, v \in AccessValues, m \in AccessMaxValues :
           set_control(n, v, m)
    \/ set_control_limit
    \/ \E n \in AccessNames : get_control(n)
    \/ gpw_copy
    \/ gpw_swap
    \/ gpw_append
    \/ \E t \in Threads : LoopTop(t, AccessMaxLoops)
    \/ \E t \in Threads, r \in {Reading(0, 1, 400, 0)} :
           LoopBody(t, r, FALSE)
    \/ \E t \in Threads : SensorAcquire(t, Reading(0, 1, 400, 0))
    \/ \E t \in Threads : ControlsAcquire(t)
    \/ \E t \in Threads : Release(t)
    \/ \E t \in Threads : LoopWrite(t, FALSE)

AccessSpec == Init /\ [][AccessNext]_vars

(***************************************************************************)
(* ValveSpec: the valve command mapper.  The controller commands the inlet *)
(* below its range (-0.5), within it (2.7, 40.0) and above it (101.7), and *)
(* the outlet closed or open, as an object it makes anew or as one it has  *)
(* given before; the coordinator starts and stops the loop.                *)
(***************************************************************************)
ValveMaxLoops == 3

ValveReadings ==
    {Reading(1, 1, uin, uout) : uin \in {-5, 27, 400, 1017}, uout \in {0, 1}}

ValveNext ==
    \/ start
    \/ stop
    \/ \E t \in Threads : LoopTop(t, ValveMaxLoops)
    \/ \E t \in Threads, r \in ValveReadings : LoopBody(t, r, FALSE)
    \/ \E t \in Threads : SensorAcquire(t, Reading(0, 1, 400, 0))
    \/ \E t \in Threads : ControlsAcquire(t)
    \/ \E t \in Threads : Release(t)
    \/ \E t \in Threads, fresh \in BOOLEAN : LoopWrite(t, fresh)

ValveSpec == Init /\ [][ValveNext]_vars

(***************************************************************************)
(* The properties.                                                         *)
(***************************************************************************)
AliveIn(th) == {i \in 1..Len(th) : th[i].pc \notin {"exited", "crashed"}}

Resyncs(t) ==
    /\ thr[t].pc \in {"ctl_acq", "fin_ctl_acq"}
    /\ t \in 1..Len(thr')
    /\ thr'[t].pc \in {"ctl_rel", "fin_ctl_rel"}

\* C1: get_control(name) returns the last value other than None that
\* set_control stored for name, whether or not a resync has happened since,
\* and a resync copies the shared settings into the working settings and
\* leaves the shared copy as it was.
C1_GetControlReturnsLastSet ==
    [][/\ \A n \in ControlNames :
              (ret'.op = "get_control" /\ get_control(n))
                  => ret'.val = ControlSetting(n, last_set[n])
       /\ \A t \in Threads :
              Resyncs(t) => COPY_SET' = COPY_SET /\ SET' = COPY_SET]_vars

\* a value set, taken over by a resync, and returned by get_control
C1_Witness ==
    /\ ret.op = "get_control"
    /\ ret.val = ControlSetting("PEEP_TIME", 2)
    /\ last_set["PEEP_TIME"] = 2
    /\ SET["PEEP_TIME"] = 2

\* C2: when stop() is followed by start(), the running flag is set afterwards
\* (the loop goes on), also when start() comes before the stopping thread
\* has left its loop.
C2_StopThenStartResumes == calls = <<"stop", "start">> => running

\* C3: once stop() has cleared the flag of a loop that has iterated and
\* commanded the valves, and the loop thread is no longer alive, the hardware
\* is in standby: inlet setpoint 0, outlet setpoint 1.
C3_StoppedLoopLeftStandby ==
    (/\ calls # <<>>
     /\ Last(calls) = "stop"
     /\ ~running
     /\ loop_counter > 1
     /\ cur # 0
     /\ ~is_alive(cur))
        => (hal.setpoint_in = 0 /\ hal.setpoint_ex = 1)

\* C4: start() with no thread, or with a thread that is no longer alive,
\* sets the flag and spawns exactly one thread; start() with a thread alive
\* changes neither the flag nor the threads.
C4_StartIdempotent ==
    [][start =>
          IF cur = 0 \/ ~is_alive(cur)
          THEN /\ running'
               /\ Cardinality(AliveIn(thr')) = Cardinality(AliveIn(thr)) + 1
               /\ cur' \in AliveIn(thr')
               /\ thr'[cur'] = NewThread
          ELSE UNCHANGED <<running, thr, cur, lock, loop_counter>>]_vars

\* start() called twice, the second time with the thread alive and iterating
C4_Witness ==
    /\ calls = <<"start", "start">>
    /\ ret.op = "start"
    /\ Len(thr) = 1
    /\ is_alive(1)
    /\ thr[1].pc = "body"

\* C5: interrupt() returns with the running flag set, in whatever state it
\* is called.
C5_InterruptLeavesFlagSet ==
    (calls # <<>> /\ Last(calls) = "interrupt") => running

\* C6: the loop thread touches the shared settings, the HAPA limit, the
\* snapshot and the alarms only while it holds the lock.
C6_SharedStateUnderLock == unlocked = {}

\* C7: the archive never holds more than RINGBUFFER_SIZE waveforms, and an
\* archive that is full and receives another waveform drops its oldest one.
C7_RingBufferBounded ==
    [][/\ Len(archive') <= RINGBUFFER_SIZE
       /\ (Len(archive) = RINGBUFFER_SIZE /\ archived' # archived)
              => archive' = Append(Tail(archive), cycle_waveform)]_vars

\* the loop has archived one waveform more than the archive holds, and
\* get_past_waveforms has taken none away
C7_Witness ==
    /\ archived = RINGBUFFER_SIZE + 1
    /\ Len(archive) = RINGBUFFER_SIZE
    /\ calls = <<"start">>
    /\ ret.op = "start"
    /\ Idle

\* C8: get_past_waveforms() on an archive that holds waveforms returns them
\* and leaves exactly one waveform in the archive, the most recent one it
\* returned.
C8_DrainKeepsMostRecent ==
    [][(gpw_append /\ co.arg # <<>>)
          => (ret'.val = co.arg /\ archive' = <<Last(co.arg)>>)]_vars

\* C9: the breath count never decreases, in the module and in the published
\* snapshot; each new breath takes the next value of the one counter, and no
\* earlier breath had that value.
C9_BreathCountFromOneCounter ==
    [][/\ DATA_BREATH_COUNT' >= DATA_BREATH_COUNT
       /\ COPY_sensor_values'.breath_count >= COPY_sensor_values.breath_count
       /\ breath_counter' >= breath_counter
       /\ breath_ids' # breath_ids
              => /\ DATA_BREATH_COUNT' = breath_counter
                 /\ breath_counter' = breath_counter + 1
                 /\ \A i \in 1..Len(breath_ids) :
                        breath_ids[i] # DATA_BREATH_COUNT']_vars

\* two breaths counted, the second by a thread started after a stop()
C9_Witness ==
    /\ calls = <<"stop", "start">>
    /\ breath_ids = <<0, 1>>
    /\ DATA_BREATH_COUNT = 1
    /\ COPY_sensor_values.breath_count = 1

GivenPhases == <<10, 30, 60, 5, 20>>

ObsPhases == [i \in 1..Len(obs) |-> obs[i][1]]

ObsEvents == {i \in 1..Len(obs) : obs[i][2]}

\* C10 as stated: a loop that has seen the phases 0.1, 0.3, 0.6, 0.05, 0.2
\* has had exactly one new-breath event, at the fourth sample.
C10_OneEventAtFourth == ObsPhases = GivenPhases => ObsEvents = {4}

\* C10: a loop thread that has seen, from its start, a prefix of the phases
\* 0.1, 0.3, 0.6, 0.05, 0.2 has had its new-breath events at the first
\* sample (there is no previous phase) and at the fourth (the phase fell),
\* and at no other sample.
C10_EventsAtFirstAndFourth ==
    (/\ Len(obs) <= Len(GivenPhases)
     /\ ObsPhases = SubSeq(GivenPhases, 1, Len(obs)))
        => ObsEvents = {1, 4} \cap (1..Len(obs))

\* the five phases seen, the fourth with an event
C10_Witness == ObsPhases = GivenPhases /\ 4 \in ObsEvents

(***************************************************************************)
(* The alarm checks.                                                       *)
(***************************************************************************)
AlarmTypes == {"SENSORS_STUCK", "BAD_SENSOR_READINGS", "MISSED_HEARTBEAT"}

\* thread t makes lines 758-786 of an iteration, the alarm check among them;
\* data'.PRESSURE is the pressure the check has compared
BodyStep(t) ==
    /\ thr[t].pc = "body"
    /\ t \in 1..Len(thr')
    /\ thr'[t].pc # "body"

\* a thread has just made its alarm check, on the measurements in data
JustChecked == \E t \in Threads : thr[t].pc \in {"write", "nb_acq"}

\* C11: the list of technical alarms holds at most one alarm of each type.
C11_OneAlarmOfEachType ==
    \A type \in AlarmTypes :
        Cardinality({i \in 1..Len(TECHA) : TECHA[i] = type}) <= 1

\* implausible readings were reported before the stuck sensor was, and the
\* check just made has found them implausible again
C11_Witness ==
    /\ TECHA = <<"BAD_SENSOR_READINGS", "SENSORS_STUCK">>
    /\ data.PRESSURE > LIMIT_MAX_PRESSURE
    /\ JustChecked

\* C12: an alarm check that finds the pressure above the limit, with no HAPA
\* alarm open or one that is not older than the cough tolerance, leaves a
\* HAPA alarm open, forces no release, and leaves the controller's command,
\* the working PIP and the clock as they were.
C12_CoughIsTolerated ==
    [][\A t \in Threads, r \in AlarmReadings :
          (/\ LoopBody(t, r, FALSE)
           /\ r.p > limit_hapa
           /\ (HAPA = None \/ now - HAPA <= COUGH_DURATION))
              => /\ HAPA' # None
                 /\ release_cycles' = 0
                 /\ control_signal_in' = r.u_in
                 /\ control_signal_out' = r.u_out
                 /\ SET' = SET
                 /\ now' = now]_vars

\* a second check of an excursion that is exactly as old as the tolerance
C12_Witness ==
    /\ JustChecked
    /\ data.PRESSURE > limit_hapa
    /\ HAPA # None
    /\ now - HAPA = COUGH_DURATION
    /\ release_cycles = 0
    /\ control_signal_in = 400
    /\ control_signal_out = 0

C14_HapaClearedOrKept ==
    [][\A t \in Threads :
          BodyStep(t)
              => /\ data'.PRESSURE <= limit_hapa => HAPA' = None
                 /\ (data'.PRESSURE > limit_hapa /\ HAPA # None)
                        => HAPA' = HAPA
                 /\ (data'.PRESSURE > limit_hapa /\ HAPA = None)
                        => HAPA' = now]_vars

\* the check just made has forced a release: the alarm was open before it
\* and has kept its start_time
C14_Witness ==
    /\ JustChecked
    /\ release_cycles = FORCED_RELEASE_CYCLES
    /\ HAPA # None
    /\ now - HAPA > COUGH_DURATION

\* C15: an alarm check made when the last contact with the coordinator is
\* more than HEARTBEAT_TIMEOUT ago leaves a MISSED_HEARTBEAT alarm in the
\* list of technical alarms.
C15_MissedHeartbeatRaised ==
    [][\A t \in Threads :
          (BodyStep(t) /\ now - time_last_contact > HEARTBEAT_TIMEOUT)
              => HasAlarm(TECHA', "MISSED_HEARTBEAT")]_vars

(***************************************************************************)
(* The last contact with the coordinator.                                  *)
(***************************************************************************)
\* the call that returns in this step is op
Returns(op) == ret'.op = op

\* C16: every public method, when it returns, has set the time of the last
\* contact to the time of the call: get_sensors, get_alarms, set_control
\* with a known or an unknown name, get_control, get_past_waveforms,
\* get_heartbeat, is_running, start and stop.
C16_EveryAccessorStampsContact ==
    [][(\/ Returns("get_sensors") /\ get_sensors
        \/ Returns("get_alarms") /\ get_alarms
        \/ /\ Returns("set_control")
           /\ \/ set_control_limit
              \/ \E n \in AccessNames, v \in AccessValues,
                    m \in AccessMaxValues : set_control(n, v, m)
        \/ Returns("get_control") /\ \E n \in AccessNames : get_control(n)
        \/ Returns("get_past_waveforms") /\ gpw_append
        \/ Returns("get_heartbeat") /\ get_heartbeat
        \/ Returns("is_running") /\ is_running
        \/ Returns("start") /\ start
        \/ Returns("stop") /\ stop)
           => time_last_contact' = now]_vars

(***************************************************************************)
(* The valve command mapper.                                               *)
(***************************************************************************)
\* thread t makes the call of _set_HAL of lines 791-794
WriteStep(t) ==
    /\ thr[t].pc = "write"
    /\ t \in 1..Len(thr')
    /\ thr'[t].pc # "write"

\* thread t makes the call of set_valves_standby of line 805
StandbyStep(t) ==
    /\ thr[t].pc = "fin_sen_rel"
    /\ t \in 1..Len(thr')
    /\ thr'[t].pc = "exited"

\* a thread has just made the call of _set_HAL of lines 791-794
JustWritten == \E t \in Threads : thr[t].pc \in {"top", "ctl_acq"}

\* C17 as stated: the inlet setpoint is always within 0..100, and after
\* _set_HAL it is the inlet command (in tenths), limited to the range and
\* rounded to the nearest integer.
C17_InletClampedAndRounded ==
    [][/\ hal'.setpoint_in \in 0..VALVE_MAX
       /\ \A t \in Threads :
              WriteStep(t)
                  => LET c == control_signal_in
                         k == hal'.setpoint_in
                     IN  /\ c < 0 => k = 0
                         /\ c > 10 * VALVE_MAX => k = VALVE_MAX
                         /\ (0 <= c /\ c <= 10 * VALVE_MAX)
                                => (10 * k - c <= 5 /\ c - 10 * k <= 5)]_vars

\* C17, amended: the inlet setpoint is always an integer within 0..100, and
\* after _set_HAL it is the inlet command (in tenths) with its fraction
\* dropped, limited to the range.
C17_InletClampedAndTruncated ==
    [][/\ hal'.setpoint_in \in 0..VALVE_MAX
       /\ \A t \in Threads :
              WriteStep(t)
                  => LET c == control_signal_in
                         k == hal'.setpoint_in
                     IN  /\ c < 0 => k = 0
                         /\ c >= 10 * VALVE_MAX => k = VALVE_MAX
                         /\ (0 <= c /\ c < 10 * VALVE_MAX)
                                => (10 * k <= c /\ c < 10 * k + 10)]_vars

\* an inlet command of 101.7 has been written as 100
C17_Witness ==
    /\ JustWritten
    /\ control_signal_in = 1017
    /\ hal.wrote_in
    /\ hal.setpoint_in = VALVE_MAX

\* C18: _set_HAL writes no valve whose requested value equals the cached
\* setting, and writes a valve whose requested value differs and caches the
\* value; the cache is the setpoint last written.
C18_WriteSuppressedIffEqual ==
    [][\A t \in Threads :
          WriteStep(t)
              => LET v == ClampValve(control_signal_in)
                     out == control_signal_out
                 IN  /\ v = hal.current_setting_in => ~hal'.wrote_in
                     /\ v # hal.current_setting_in
                            => (hal'.wrote_in /\ hal'.current_setting_in = v)
                     /\ out = hal.current_setting_ex => ~hal'.wrote_ex
                     /\ out # hal.current_setting_ex
                            => (hal'.wrote_ex /\ hal'.current_setting_ex = out)
                     /\ hal'.current_setting_in = hal'.setpoint_in
                     /\ hal'.current_setting_ex = hal'.setpoint_ex]_vars

\* C19: set_valves_standby writes inlet 0 and outlet 1 to the hardware,
\* whatever the cached settings.
C19_StandbyAlwaysWrites ==
    [][\A t \in Threads :
          StandbyStep(t)
              => /\ hal'.wrote_in
                 /\ hal'.wrote_ex
                 /\ hal'.setpoint_in = 0
                 /\ hal'.setpoint_ex = 1]_vars

(***************************************************************************)
(* set_control with a name that has no variable in the controller.         *)
(***************************************************************************)
UnknownNames == CtlNames \ ControlNames

\* C20: a call of set_control with an unknown name, whatever its value and
\* max_value, returns with the shared copy of every setting, the working
\* settings and the HAPA limit as they were, the lock not held by the
\* coordinator and no second step of the call pending.
C20_UnknownNameChangesNothing ==
    [][\A n \in UnknownNames, v \in CtlValues, m \in CtlMaxValues :
          (Returns("set_control") /\ ret'.arg = n /\ set_control(n, v, m))
              => /\ COPY_SET' = COPY_SET
                 /\ limit_hapa' = limit_hapa
                 /\ SET' = SET
                 /\ lock' = lock
                 /\ lock' # Coordinator
                 /\ co'.pc = "idle"]_vars

\* set_control(FIO2) has returned after PIP and the HAPA limit had been set
C20_Witness ==
    /\ ret.op = "set_control"
    /\ ret.arg \in UnknownNames
    /\ COPY_SET["PIP"] = 2
    /\ limit_hapa = 3
    /\ lock = Unlocked
    /\ co.pc = "idle"

(***************************************************************************)
(* The period of the resync.                                               *)
(***************************************************************************)
\* thread t makes the _controls_from_COPY of line 796
ResyncStep(t) ==
    /\ thr[t].pc = "ctl_acq"
    /\ t \in 1..Len(thr')
    /\ thr'[t].pc = "ctl_rel"

\* C21: the iteration that is the LOOPS_UNTIL_UPDATE-th since the thread's
\* last resync (or since its start) ends with a resync, no thread begins
\* more iterations than that without one, and the resync makes the working
\* settings equal to the shared copy.
C21_ResyncEveryNIterations ==
    [][/\ \A t \in Threads :
              (WriteStep(t) /\ thr[t].since = LOOPS_UNTIL_UPDATE)
                  => thr'[t].pc = "ctl_acq"
       /\ \A t \in Threads : thr[t].since <= LOOPS_UNTIL_UPDATE
       /\ \A t \in Threads : ResyncStep(t) => SET' = COPY_SET]_vars

(***************************************************************************)
(* The HAPA limit.                                                         *)
(***************************************************************************)
\* C22: the HAPA limit changes only in the second step of a set_control of
\* PIP that carries a max_value, and then becomes that max_value; such a
\* call does go on to that step; a set_control of another name or without
\* max_value, get_control and every step of the loop, its resync included,
\* leave the limit as it was.
C22_LimitOnlyFromPipMaxValue ==
    [][/\ limit_hapa' # limit_hapa
              => /\ co.pc = "sc_limit"
                 /\ set_control_limit
                 /\ limit_hapa' = co.arg
                 /\ ret'.arg = "PIP"
       /\ co'.pc = "sc_limit" => (co'.arg # None /\ co'.arg \in CtlMaxValues)
       /\ \A v \in CtlValues, m \in CtlMaxValues \ {None} :
              (ret'.op # "get_control" /\ set_control("PIP", v, m))
                  => (co'.pc = "sc_limit" /\ co'.arg = m)
       /\ set_control_limit => limit_hapa' = co.arg
       /\ \A t \in Threads : ResyncStep(t) => limit_hapa' = limit_hapa]_vars

\* set_control(PIP, max_value 3) has returned and the limit is 3
C22_Witness ==
    /\ ret.op = "set_control"
    /\ ret.arg = "PIP"
    /\ co.pc = "idle"
    /\ limit_hapa = 3
    /\ limit_hapa # LIMIT_HAPA_DEFAULT
    /\ \E t \in Threads : thr[t].since = 0 /\ thr[t].pc = "ctl_rel"

C24_LoopSurvivesAlarms ==
    /\ [](\A t \in Threads : thr[t].pc \notin {"exited", "crashed"})
    /\ running ~> (loop_counter = AlarmMaxLoops)

\* the loop has made all its iterations with a HAPA alarm open, a release
\* forced and two technical alarms raised
C24_Witness ==
    /\ running
    /\ loop_counter = AlarmMaxLoops
    /\ HAPA # None
    /\ release_cycles = FORCED_RELEASE_CYCLES
    /\ Len(TECHA) = 2
    /\ JustWritten

(***************************************************************************)
(* The waveform analyzer.                                                  *)
(***************************************************************************)
\* C25: __analyze_last_waveform never raises: no loop thread dies in the
\* iteration that runs it, whatever waveform has been archived.
C25_AnalyzerNeverRaises ==
    [][\A t \in Threads : BodyStep(t) => thr'[t].pc # "crashed"]_vars

(***************************************************************************)
(* The segmenter, iteration by iteration.                                  *)
(***************************************************************************)
\* the phase the controller has reported in the iteration just observed
PhaseSeen(o) == Last(o)[1]

\* C26: an iteration raises a new-breath event (the breath count is taken
\* from the counter and a new waveform of one sample is started) exactly if
\* the thread has no previous phase or its previous phase is greater than
\* the current one; every other iteration leaves the breath count alone and
\* appends one sample to the waveform in progress.
C26_NewBreathIffPhaseFell ==
    [][\A t \in Threads :
          BodyStep(t)
              => LET prev == thr[t].cycle_phase
                     ph == PhaseSeen(obs')
                     event == breath_counter' = breath_counter + 1
                 IN  /\ event <=> (prev = None \/ prev > ph)
                     /\ event => /\ DATA_BREATH_COUNT' = breath_counter
                                 /\ Len(cycle_waveform') = 1
                     /\ ~event
                            => /\ breath_counter' = breath_counter
                               /\ DATA_BREATH_COUNT' = DATA_BREATH_COUNT
                               /\ archive' = archive
                               /\ Len(cycle_waveform') = Len(cycle_waveform) + 1
                               /\ SubSeq(cycle_waveform', 1, Len(cycle_waveform))
                                      = cycle_waveform]_vars

\* the loop has seen the phase stay, rise and fall: no event, no event, event
C26_Witness ==
    /\ \E i \in 1..(Len(obs) - 1) : obs[i][1] = obs[i + 1][1] /\ ~obs[i + 1][2]
    /\ \E i \in 1..(Len(obs) - 1) : obs[i][1] < obs[i + 1][1] /\ ~obs[i + 1][2]
    /\ \E i \in 1..(Len(obs) - 1) : obs[i][1] > obs[i + 1][1] /\ obs[i + 1][2]

\* C27: the sample an iteration without a new breath appends to the waveform
\* in progress is the phase, the pressure and the volume of that iteration.
C27_SampleCarriesCurrentPhase ==
    [][\A t \in Threads :
          (BodyStep(t) /\ Len(cycle_waveform') = Len(cycle_waveform) + 1)
              => Last(cycle_waveform')
                     = <<PhaseSeen(obs'), data'.PRESSURE, data'.VOLUME>>]_vars

(***************************************************************************)
(* The waveform the analyzer works on.                                     *)
(***************************************************************************)
\* C28: at a new-breath event the analyzer runs only on a waveform that
\* this event has closed and archived, and it runs whenever the event has
\* archived a waveform and an earlier one had been archived.
C28_AnalyzerTakesJustClosed ==
    [][\A t \in Threads :
          (BodyStep(t) /\ breath_counter' = breath_counter + 1)
              => /\ AnalyzerRuns(archive') => archived' = archived + 1
                 /\ (archived' = archived + 1 /\ archived >= 1)
                        => AnalyzerRuns(archive')]_vars

(***************************************************************************)
(* What is done with the lock held.                                        *)
(***************************************************************************)
\* C30: no call of the data logger is made with the lock held.
C30_NoLoggerCallUnderLock == held_io = {}

(***************************************************************************)
(* The stuck-sensor check.                                                 *)
(***************************************************************************)
\* the triple (oxygen, flow-out, pressure) compared by the check just made
\* has a reading equal to the one of the check before
SomeReadingUnchanged ==
    /\ DATA_old # <<>>
    /\ \E i \in 1..3 : DATA_old'[i] = DATA_old[i]

StuckAlarm(techa) == HasAlarm(techa, "SENSORS_STUCK")

\* C29 (as stated): a SENSORS_STUCK alarm is added once some reading of the
\* triple has been unchanged for more than LIMIT_MAX_STUCK_SENSOR and none is
\* active, and the stuck timer is reset in every iteration in which the
\* triple differs from the one of the iteration before.
C29_TimerResetWhenTripleChanges ==
    [][\A t \in Threads :
          BodyStep(t) =>
              /\ (/\ SomeReadingUnchanged
                  /\ sensor_stuck_since # None
                  /\ now' - sensor_stuck_since > LIMIT_MAX_STUCK_SENSOR)
                     => StuckAlarm(TECHA')
              /\ (DATA_old # <<>> /\ DATA_old' # DATA_old)
                     => sensor_stuck_since' = None]_vars

\* C29 (amended): the check compares the triple with the one of the
\* iteration before.  If some reading is unchanged the stuck timer is started
\* (or kept, if it runs), and a SENSORS_STUCK alarm is present afterwards
\* exactly if one was present or the timer has run for more than
\* LIMIT_MAX_STUCK_SENSOR.  The timer is reset, and no stuck alarm is added,
\* in the first check and in every check in which each of the three readings
\* differs from the one before.
C29_TimerResetWhenAllReadingsChange ==
    [][\A t \in Threads :
          BodyStep(t) =>
              /\ DATA_old' = <<data'.COPY_OXYGEN, data'.Qout, data'.PRESSURE>>
              /\ SomeReadingUnchanged =>
                    /\ sensor_stuck_since' =
                           IF sensor_stuck_since = None THEN now'
                           ELSE sensor_stuck_since
                    /\ StuckAlarm(TECHA') <=>
                           \/ StuckAlarm(TECHA)
                           \/ /\ sensor_stuck_since # None
                              /\ now' - sensor_stuck_since
                                     > LIMIT_MAX_STUCK_SENSOR
              /\ ~SomeReadingUnchanged =>
                    /\ sensor_stuck_since' = None
                    /\ StuckAlarm(TECHA') <=> StuckAlarm(TECHA)]_vars

\* a stuck alarm has been raised while one reading stood still and the
\* others moved, and a later check, in which all three readings differ from
\* the ones before, has reset the timer
C29_Witness ==
    /\ JustChecked
    /\ StuckAlarm(TECHA)
    /\ sensor_stuck_since = None
    /\ DATA_old = <<21, 0, 2>>

(***************************************************************************)
(* One loop thread.                                                        *)
(***************************************************************************)
\* C31: whatever the coordinator calls of start, stop and interrupt, at most
\* one loop thread is alive, and it is the one self.__thread refers to: the
\* actuators, the loop counter and the in-progress waveform have one writer.
C31_AtMostOneLoopThread ==
    /\ Cardinality(AliveIn(thr)) <= 1
    /\ \A t \in Threads : is_alive(t) => t = cur

\* a thread has died under interrupt(), start() has spawned its replacement,
\* and the replacement iterates alone
C31_Witness ==
    /\ calls = <<"interrupt", "start">>
    /\ Cardinality(AliveIn(thr)) = 1
    /\ thr[cur].pc = "write"
    /\ loop_counter >= 2

(***************************************************************************)
(* The lock and interrupt().                                               *)
(***************************************************************************)
\* the coordinator is inside a `with self._lock` block
CoordinatorInCritical == co.pc \in {"gpw_swap", "gpw_append"}

\* C32: the coordinator and a loop thread are never inside a `with
\* self._lock` block at the same time, no loop thread is inside a block whose
\* lock has been released under it (its own release would be one of a lock
\* that is not held), and interrupt() never releases a lock that is not held.
C32_MutualExclusionSurvivesInterrupt ==
    /\ ~(CoordinatorInCritical /\ \E t \in Threads : thr[t].pc \in InCritical)
    /\ \A t \in Threads : ~thr[t].stale
    /\ ~(ret.op = "interrupt" /\ ret.exc = "RuntimeError")

(***************************************************************************)
(* get_past_waveforms() on an empty archive.                               *)
(***************************************************************************)
\* C33: get_past_waveforms() that has copied an empty archive returns the
\* empty list without raising, releases the lock and leaves the archive
\* empty.
C33_EmptyArchiveReturnsEmptyList ==
    [][(co.pc = "gpw_append" /\ co'.pc = "idle" /\ co.arg = <<>>)
          => /\ ret'.op = "get_past_waveforms"
             /\ ret'.exc = ""
             /\ ret'.val = <<>>
             /\ lock' = Unlocked
             /\ archive' = <<>>]_vars

(***************************************************************************)
(* The logger and stop().                                                  *)
(***************************************************************************)
\* C34: the loop thread makes no call of the data logger after stop() has
\* closed the log file.
C34_NoStoreAfterClose == ~late_store

(***************************************************************************)
(* Technical alarms stay.                                                  *)
(***************************************************************************)
\* C35: no step removes a technical alarm from the list, and get_alarms
\* returns every technical alarm there is: an alarm that has been added is
\* in every later result of get_alarms.
C35_TechnicalAlarmsStay ==
    [][/\ \A a \in AlarmTypes : HasAlarm(TECHA, a) => HasAlarm(TECHA', a)
       /\ (Returns("get_alarms") /\ get_alarms)
              => \A a \in AlarmTypes :
                     HasAlarm(TECHA, a)
                         => /\ HasAlarm(ret'.val.techa, a)
                            /\ \E i \in 1..Len(ret'.val.tuple) :
                                   ret'.val.tuple[i] = "techa"]_vars

\* the loop has raised BAD_SENSOR_READINGS, has been stopped and started
\* again, its last check has seen a plausible pressure, and get_alarms still
\* returns the alarm
C35_Witness ==
    /\ ret.op = "get_alarms"
    /\ HasAlarm(ret.val.techa, "BAD_SENSOR_READINGS")
    /\ calls = <<"stop", "start">>
    /\ DATA_old # <<>>
    /\ DATA_old[3] = 1
    /\ JustChecked

=============================================================================
